---- MODULE Spec2Model ----
(***************************************************************************)
(* Model of run_requests (src/uoy_assessment_uploader/__init__.py): the    *)
(* single forward pass that fetches the submit URL, works out from the     *)
(* resolved URL which authentication steps are outstanding, performs them  *)
(* and uploads the file.                                                   *)
(*                                                                         *)
(* Two runs of run_requests are modelled side by side, one per value of    *)
(* args.dry_run, against one and the same server: a request the server has *)
(* answered once is answered the same way again.  Everything else is per   *)
(* run.  A run is identified by its dry_run flag.                          *)
(***************************************************************************)
EXTENDS Integers, Sequences, FiniteSets, TLC

\* ------------------------------------------------------------------ bounds
\* Anti-forgery tokens a page may carry are 1..MaxToken.
MaxToken == 2

Tokens == 1..MaxToken
\* Python's None where a token is expected (the tag was not found).
NoToken == MaxToken - MaxToken

\* ------------------------------------------------------------------- URLs
\* A URL is the record of the parts urllib.parse.urlparse splits it into.
\* Two URL strings are equal iff their records are equal.
Url(scheme, netloc, path, query) ==
    [scheme |-> scheme, netloc |-> netloc, path |-> path, query |-> query]

NoUrl == Url("", "", "", "")

URL_EXAM_NUMBER ==
    Url("https", "teaching.cs.york.ac.uk", "/student/confirm-exam-number", "")

URL_LOGIN ==
    Url("https", "shib.york.ac.uk", "/idp/profile/SAML2/Redirect/SSO", "")

\* URL_LOGIN as constants.py spells it, with the query the identity provider
\* puts on its login page.  run_requests does not use this spelling.
constants_URL_LOGIN ==
    Url("https", "shib.york.ac.uk", "/idp/profile/SAML2/Redirect/SSO", "execution=e1s1")

\* ParseResult.hostname: the netloc without its port.
Hostname(netloc) ==
    IF netloc = "shib.york.ac.uk:443" THEN "shib.york.ac.uk" ELSE netloc

urlparse(url) ==
    [hostname |-> Hostname(url.netloc), path |-> url.path, query |-> url.query]

URL_LOGIN_PARSED == urlparse(URL_LOGIN)

\* What resolve_submit_url hands to run_requests: the base URL, a slash and
\* the stripped path.  An assessment's upload page, and the path
\* "confirm-exam-number", which resolves to URL_EXAM_NUMBER itself.
SubmitA ==
    Url("https", "teaching.cs.york.ac.uk",
        "/student/2021-2/submit/COM00012C/901/A", "")

SubmitUrls == {SubmitA, URL_EXAM_NUMBER}

\* Where the SAML form of the identity provider posts back to.
ActionUrls ==
    { Url("https", "teaching.cs.york.ac.uk", "/Shibboleth.sso/SAML2/POST", ""),
      Url("https", "teaching.cs.york.ac.uk", "/Shibboleth.sso/SAML2/POST-SimpleSign", "") }

\* The URLs the initial GET may resolve to after redirects.
ResolvedUrls ==
    { URL_LOGIN,
      Url("https", "shib.york.ac.uk:443", "/idp/profile/SAML2/Redirect/SSO", ""),
      constants_URL_LOGIN,
      Url("http", "shib.york.ac.uk", "/idp/profile/SAML2/Redirect/SSO", "SAMLRequest=x"),
      Url("https", "shib.york.ac.uk", "/idp/profile/Logout", ""),
      URL_EXAM_NUMBER,
      Url("https", "teaching.cs.york.ac.uk", "/student/confirm-exam-number", "retry=1"),
      SubmitA,
      Url("https", "teaching.cs.york.ac.uk", "/student/error", "") }

\* ------------------------------------------------------- pages, responses
\* What BeautifulSoup finds in a page: the hidden input csrf_token, the meta
\* tag csrf-token and the first form with its action.
NoForm == [present |-> FALSE, action |-> NoUrl]
Form(action) == [present |-> TRUE, action |-> action]

Page(input, meta, form) ==
    [input_csrf_token |-> input, meta_csrf_token |-> meta, form |-> form]

AnyToken == Tokens \cup {NoToken}
AnyForm == {NoForm} \cup {Form(a) : a \in ActionUrls}

Kinds == {"get", "login", "form", "exam", "upload"}

\* The pages the server may answer each kind of request with.
PagesFor(kind) ==
    CASE kind = "get"    -> {Page(i, m, f) : i \in AnyToken, m \in AnyToken, f \in AnyForm}
      [] kind = "login"  -> {Page(NoToken, NoToken, f) : f \in AnyForm}
      [] kind = "form"   -> {Page(NoToken, m, NoForm) : m \in AnyToken}
      [] kind = "exam"   -> {Page(NoToken, m, NoForm) : m \in AnyToken}
      [] kind = "upload" -> {Page(NoToken, NoToken, NoForm)}

Statuses == {200, 404}

Response(kind, status, url, page) ==
    [from |-> kind, status |-> status, url |-> url, page |-> page]

NoResponse == Response("none", 200, NoUrl, Page(NoToken, NoToken, NoForm))

\* The responses to a request of this kind sent to url: a GET follows
\* redirects to its resolved URL, a POST's resolved URL is not read.
ResponsesFor(kind, url) ==
    { Response(kind, s, u, p) :
        s \in Statuses,
        u \in (IF kind = "get" THEN ResolvedUrls \cup {url} ELSE {url}),
        p \in PagesFor(kind) }

\* Response.raise_for_status raises HTTPError for a 4xx or 5xx status.
raise_for_status(response) ==
    response.status >= 400 /\ response.status < 600

\* Mutant: where the tag of the requested mode is missing, the other mode's
\* tag is used.
get_token_FallsBack(response, login_page) ==
    IF login_page
    THEN IF response.page.input_csrf_token # NoToken
         THEN response.page.input_csrf_token ELSE response.page.meta_csrf_token
    ELSE IF response.page.meta_csrf_token # NoToken
         THEN response.page.meta_csrf_token ELSE response.page.input_csrf_token

\* get_token: the token, or NoToken where the tag lookup finds nothing and
\* the subscript raises.
get_token(response, login_page) ==
    IF login_page THEN response.page.input_csrf_token
    ELSE response.page.meta_csrf_token

\* Mutant: the submit URL is compared before the exam-number URL.
ProtocolState_SubmitFirst(url, submit) ==
    IF <<urlparse(url).hostname, urlparse(url).path>>
         = <<URL_LOGIN_PARSED.hostname, URL_LOGIN_PARSED.path>>
    THEN IF urlparse(url).query = URL_LOGIN_PARSED.query
         THEN "NeedsFullLogin"
         ELSE "NeedsSecondaryCodeResume"
    ELSE IF url = submit THEN "Ready"
    ELSE IF url = URL_EXAM_NUMBER THEN "NeedsSecondaryCode"
    ELSE "Unexpected"

\* Mutant: the query of the resolved URL is not looked at.
ProtocolState_QueryIgnored(url, submit) ==
    IF <<urlparse(url).hostname, urlparse(url).path>>
         = <<URL_LOGIN_PARSED.hostname, URL_LOGIN_PARSED.path>>
    THEN "NeedsFullLogin"
    ELSE IF url = URL_EXAM_NUMBER THEN "NeedsSecondaryCode"
    ELSE IF url = submit THEN "Ready"
    ELSE "Unexpected"

\* The if/elif chain of run_requests over the resolved URL.
ProtocolState(url, submit) ==
    IF <<urlparse(url).hostname, urlparse(url).path>>
         = <<URL_LOGIN_PARSED.hostname, URL_LOGIN_PARSED.path>>
    THEN IF urlparse(url).query = URL_LOGIN_PARSED.query
         THEN "NeedsFullLogin"
         ELSE "NeedsSecondaryCodeResume"
    ELSE IF url = URL_EXAM_NUMBER THEN "NeedsSecondaryCode"
    ELSE IF url = submit THEN "Ready"
    ELSE "Unexpected"

\* ------------------------------------------------------------------ state
Runs == BOOLEAN

VARIABLES
    submit_url,   \* the submit_url argument, the same for both runs
    server,       \* kind -> the response the server gave, NoResponse before
    pc,           \* run -> position in run_requests
    state,        \* run -> branch taken, "none" before the dispatch
    response,     \* run -> the local variable response
    csrf_token,   \* run -> the local variable csrf_token
    resolved,     \* run -> the credentials the ensure_ functions returned
    trace,        \* run -> what the run did so far, in order
    rs_input,     \* resolve_submit_url: the argument submit_url
    rs_output,    \* resolve_submit_url: <<"returned", value>>, <<"pending">> before
    args,         \* main: the parsed command line
    main_pc,      \* main: position in main
    upload_file,  \* main: whether the file of --file exists
    keyring,      \* main: whether the keyring holds the user's entries
    cookie_file,  \* the file of --cookie-file: whether it exists, and its lines
    cookies,      \* the LWPCookieJar of main
    now,          \* the clock the cookie jar reads
    reloaded,     \* a later LWPCookieJar loaded from cookie_file
    sel_pc,       \* run_selenium: position in the function
    current_url,  \* run_selenium: driver.current_url
    sel_count     \* run_selenium: the steps taken and pages reached, counted

run_vars == <<submit_url, server, pc, state, response, csrf_token, resolved, trace>>
resolve_vars == <<rs_input, rs_output>>
main_vars == <<args, main_pc, upload_file, keyring>>
cookie_vars == <<cookie_file, cookies, now, reloaded>>
selenium_vars == <<sel_pc, current_url, sel_count>>

\* What run_requests does not touch.
outside_run_requests == <<resolve_vars, main_vars, cookie_vars, selenium_vars>>

vars == <<run_vars, resolve_vars, main_vars, cookie_vars, selenium_vars>>

\* ------------------------------------------------------ resolve_submit_url
\* A string is the sequence of its pieces.  The pieces are "/", letters
\* ("x", "y") and the words of the base URL; no piece is the beginning of
\* another, so one string starts with another exactly when its sequence
\* starts with the other's.
Alphabet == {"/", "x", "https:", "teaching.cs.york.ac.uk", "student"}

\* "https://teaching.cs.york.ac.uk/student"
URL_SUBMIT_BASE ==
    <<"https:", "/", "/", "teaching.cs.york.ac.uk", "/", "student">>

\* Strings are tried exhaustively up to this length,
MaxInputLen == 4
\* and spellings of a target with up to this many trailing slashes.
MaxSlashes == 2

StartsWith(s, prefix) ==
    Len(prefix) <= Len(s) /\ SubSeq(s, 1, Len(prefix)) = prefix

\* str.removeprefix
removeprefix(s, prefix) ==
    IF StartsWith(s, prefix) THEN SubSeq(s, Len(prefix) + 1, Len(s)) ELSE s

RECURSIVE lstrip(_)
lstrip(s) == IF s # <<>> /\ Head(s) = "/" THEN lstrip(Tail(s)) ELSE s

RECURSIVE rstrip(_)
rstrip(s) ==
    IF s # <<>> /\ s[Len(s)] = "/" THEN rstrip(SubSeq(s, 1, Len(s) - 1)) ELSE s

\* str.strip("/")
strip(s) == rstrip(lstrip(s))

\* Mutant: only the trailing slashes are stripped.
resolve_submit_url_RstripOnly(submit, base) ==
    base \o <<"/">> \o rstrip(removeprefix(submit, base))

resolve_submit_url(submit, base) ==
    base \o <<"/">> \o strip(removeprefix(submit, base))

Slashes(n) == [i \in 1..n |-> "/"]

\* Assessment paths, as --submit-url names them: no slash at either end.
TargetPaths ==
    { <<"x">>, <<"x", "/", "x">>, <<"x", "x", "/", "x">>, <<"x", "/", "student">> }

\* The spellings of a target the function's documentation speaks of: with or
\* without the base URL, with or without leading or trailing slashes.
LeadingSpellings ==
    {Slashes(n) : n \in 0..MaxSlashes}
    \cup {URL_SUBMIT_BASE \o Slashes(n) : n \in 1..MaxSlashes}

DocumentedSpellings(path) ==
    {lead \o path \o Slashes(n) : lead \in LeadingSpellings, n \in 0..MaxSlashes}

\* The further spellings of the specification: the path with the base path
\* "/student" in front, and the base URL without its scheme.
BasePathSpellings ==
    { <<"/", "student", "/">>,
      <<"teaching.cs.york.ac.uk", "/", "student", "/">>,
      <<"/", "/", "teaching.cs.york.ac.uk", "/", "student", "/">> }

SpecifiedSpellings(path) ==
    DocumentedSpellings(path)
    \cup {lead \o path \o Slashes(n) : lead \in BasePathSpellings, n \in 0..MaxSlashes}

RECURSIVE StringsUpTo(_)
StringsUpTo(n) ==
    IF n = 0 THEN {<<>>}
    ELSE StringsUpTo(n - 1)
         \cup {Append(s, a) : s \in {t \in StringsUpTo(n - 1) : Len(t) = n - 1},
                              a \in Alphabet}

SubmitUrlArguments ==
    StringsUpTo(MaxInputLen)
    \cup UNION {SpecifiedSpellings(path) : path \in TargetPaths}

Pending == <<"pending">>
Returned(value) == <<"returned", value>>

ResolveIdle ==
    /\ rs_input = <<>>
    /\ rs_output = Pending

ResolveInit ==
    /\ rs_input \in SubmitUrlArguments
    /\ rs_output = Pending

\* submit_url = resolve_submit_url(args.submit_url)
ResolveSubmitUrl ==
    /\ rs_output = Pending
    /\ rs_output' = Returned(resolve_submit_url(rs_input, URL_SUBMIT_BASE))
    /\ UNCHANGED <<rs_input, run_vars, main_vars, cookie_vars, selenium_vars>>

\* ------------------------------------------------------------ cookie jar
\* The clock runs from 0 to MaxTime.
MaxTime == 2
Times == 0..MaxTime

\* Cookie.expires of a cookie with no expiry time.
NoExpiry == MaxTime - MaxTime
Expiries == 1..(MaxTime + 1)

Cookie(domain, name, value, discard, expires) ==
    [domain |-> domain, name |-> name, value |-> value,
     discard |-> discard, expires |-> expires]

CookieDomain == "teaching.cs.york.ac.uk"

\* The cookies a jar may hold, and the jars: at most one cookie per
\* (domain, name).
AnyCookie ==
    {Cookie(CookieDomain, n, v, dc, ex) :
        n \in {"session", "remember"}, v \in {"a", "b"},
        dc \in BOOLEAN, ex \in {NoExpiry} \cup Expiries}

SameKey(c1, c2) == c1.domain = c2.domain /\ c1.name = c2.name

IsJar(j) == \A c1, c2 \in j : SameKey(c1, c2) => c1 = c2

Jars ==
    {{}} \cup {{c} : c \in AnyCookie}
         \cup {j \in {{c1, c2} : c1, c2 \in AnyCookie} : Cardinality(j) = 2 /\ IsJar(j)}

\* Cookie.is_expired(now)
is_expired(c, t) == c.expires # NoExpiry /\ c.expires <= t

\* One Set-Cookie3 line of the file: the discard key is written for a cookie
\* marked discard, the expires key for a cookie that has an expiry time.
lwp_cookie_str(c) ==
    [name |-> c.name, value |-> c.value, domain |-> c.domain,
     has_discard |-> c.discard,
     has_expires |-> c.expires # NoExpiry,
     expires |-> c.expires]

\* The cookie read back from a line: one without an expires key comes back
\* marked discard.
CookieOfLine(l) ==
    Cookie(l.domain, l.name, l.value,
           l.has_discard \/ ~l.has_expires,
           IF l.has_expires THEN l.expires ELSE NoExpiry)

NoFile == [exists |-> FALSE, lines |-> {}]
File(lines) == [exists |-> TRUE, lines |-> lines]

\* Mutant: the cookies marked discard are left out although ignore_discard
\* is set.
LWPCookieJar_save_DropsDiscard(jar, ignore_discard, ignore_expires, t) ==
    File({lwp_cookie_str(c) :
            c \in {c \in jar : /\ ~c.discard
                               /\ (ignore_expires \/ ~is_expired(c, t))}})

\* LWPCookieJar.save(ignore_discard=, ignore_expires=) at time t.
LWPCookieJar_save(jar, ignore_discard, ignore_expires, t) ==
    File({lwp_cookie_str(c) :
            c \in {c \in jar : /\ (ignore_discard \/ ~c.discard)
                               /\ (ignore_expires \/ ~is_expired(c, t))}})

\* LWPCookieJar.load(ignore_discard=, ignore_expires=) of an existing file
\* into an empty jar at time t.
LWPCookieJar_load(file, ignore_discard, ignore_expires, t) ==
    {c \in {CookieOfLine(l) : l \in file.lines} :
        /\ (ignore_discard \/ ~c.discard)
        /\ (ignore_expires \/ ~is_expired(c, t))}

\* CookieJar.set_cookie for each cookie of new: a cookie replaces the one of
\* the same key.
set_cookies(jar, new) ==
    {c \in jar : \A n \in new : ~SameKey(c, n)} \cup new

NotLoaded == [done |-> FALSE, jar |-> {}]
Loaded(jar) == [done |-> TRUE, jar |-> jar]

\* No cookie jar is in use.
CookiesIdle ==
    /\ cookie_file = NoFile
    /\ cookies = {}
    /\ now = 0
    /\ reloaded = NotLoaded

\* ------------------------------------------------------------------- main
Args == [delete_cookies : BOOLEAN, delete_from_keyring : BOOLEAN,
         save_cookies : BOOLEAN, dry_run : BOOLEAN]

\* run_selenium is not running.
SeleniumIdle ==
    /\ sel_pc = "not_called"
    /\ current_url = NoUrl
    /\ sel_count = [s \in {"login", "exam_number", "login_page", "exam_page"} |-> 0]

\* main is not running.
MainIdle ==
    /\ args = [delete_cookies |-> FALSE, delete_from_keyring |-> FALSE,
               save_cookies |-> FALSE, dry_run |-> FALSE]
    /\ main_pc = "not_called"
    /\ upload_file = FALSE
    /\ keyring = FALSE

\* ----------------------------------------------------------------- events
\* op: "GET" and "POST" are network requests, "get_token" a token extraction
\* (src: the request whose response it read), "ensure" a credential
\* resolution.  data: the names of the payload fields besides the token.
Event(op, kind, url, token, data, src) ==
    [op |-> op, kind |-> kind, url |-> url, token |-> token, data |-> data, src |-> src]

EvGet(url) == Event("GET", "get", url, NoToken, {}, "none")
EvPost(kind, url, token, data) == Event("POST", kind, url, token, data, "none")
EvToken(login_page, resp) ==
    Event("get_token", IF login_page THEN "login_page" ELSE "meta",
          NoUrl, NoToken, {}, resp.from)
EvEnsure(kind) == Event("ensure", kind, NoUrl, NoToken, {}, "none")

\* What the server may answer a request of this kind with: anything if it
\* has not seen the request, what it answered before if it has.
ServerAnswers(kind, url) ==
    IF server[kind] = NoResponse THEN ResponsesFor(kind, url) ELSE {server[kind]}

Init ==
    /\ submit_url \in SubmitUrls
    /\ server = [k \in Kinds |-> NoResponse]
    /\ pc = [d \in Runs |-> "get"]
    /\ state = [d \in Runs |-> "none"]
    /\ response = [d \in Runs |-> NoResponse]
    /\ csrf_token = [d \in Runs |-> NoToken]
    /\ resolved = [d \in Runs |-> {}]
    /\ trace = [d \in Runs |-> <<>>]
    /\ ResolveIdle
    /\ MainIdle
    /\ CookiesIdle
    /\ SeleniumIdle

\* response = session.get(submit_url); response.raise_for_status()
Get(d) ==
    /\ pc[d] = "get"
    /\ \E resp \in ServerAnswers("get", submit_url) :
         /\ server' = [server EXCEPT !["get"] = resp]
         /\ response' = [response EXCEPT ![d] = resp]
         /\ pc' = [pc EXCEPT ![d] = IF raise_for_status(resp) THEN "aborted" ELSE "dispatch"]
    /\ trace' = [trace EXCEPT ![d] = Append(@, EvGet(submit_url))]
    /\ UNCHANGED <<submit_url, state, csrf_token, resolved>>
    /\ UNCHANGED outside_run_requests

\* Mutant: no final else, an unrecognised URL falls through to the upload.
Dispatch_NoElse(d) ==
    /\ pc[d] = "dispatch"
    /\ state' = [state EXCEPT ![d] = ProtocolState(response[d].url, submit_url)]
    /\ pc' = [pc EXCEPT ![d] =
                CASE state'[d] = "NeedsFullLogin"           -> "full_credentials"
                  [] state'[d] = "NeedsSecondaryCodeResume" -> "resume_credentials"
                  [] state'[d] = "NeedsSecondaryCode"       -> "secondary_token"
                  [] state'[d] = "Ready"                    -> "ready_token"
                  [] OTHER                                  -> "upload"]
    /\ UNCHANGED <<submit_url, server, response, csrf_token, resolved, trace>>
    /\ UNCHANGED outside_run_requests

\* The dispatch on response.url: lines 205-209, 243, 251 and the final else,
\* which raises RuntimeError.
Dispatch(d) ==
    /\ pc[d] = "dispatch"
    /\ state' = [state EXCEPT ![d] = ProtocolState(response[d].url, submit_url)]
    /\ pc' = [pc EXCEPT ![d] =
                CASE state'[d] = "NeedsFullLogin"           -> "full_credentials"
                  [] state'[d] = "NeedsSecondaryCodeResume" -> "resume_credentials"
                  [] state'[d] = "NeedsSecondaryCode"       -> "secondary_token"
                  [] state'[d] = "Ready"                    -> "ready_token"
                  [] OTHER                                  -> "aborted"]
    /\ UNCHANGED <<submit_url, server, response, csrf_token, resolved, trace>>
    /\ UNCHANGED outside_run_requests

\* Full login: ensure_username, ensure_password, ensure_exam_number.
FullLoginCredentials(d) ==
    /\ pc[d] = "full_credentials"
    /\ resolved' = [resolved EXCEPT ![d] = @ \cup {"username", "password", "exam_number"}]
    /\ trace' = [trace EXCEPT ![d] =
                   @ \o <<EvEnsure("username"), EvEnsure("password"), EvEnsure("exam_number")>>]
    /\ pc' = [pc EXCEPT ![d] = "full_token"]
    /\ UNCHANGED <<submit_url, server, state, response, csrf_token>>
    /\ UNCHANGED outside_run_requests

\* Mutant: get_token called without login_page=True.
FullLoginToken_DefaultMode(d) ==
    /\ pc[d] = "full_token"
    /\ csrf_token' = [csrf_token EXCEPT ![d] = get_token(response[d], FALSE)]
    /\ trace' = [trace EXCEPT ![d] = Append(@, EvToken(FALSE, response[d]))]
    /\ pc' = [pc EXCEPT ![d] = IF csrf_token'[d] = NoToken THEN "aborted" ELSE "login_post"]
    /\ UNCHANGED <<submit_url, server, state, response, resolved>>
    /\ UNCHANGED outside_run_requests

\* csrf_token = get_token(response, login_page=True)
FullLoginToken(d) ==
    /\ pc[d] = "full_token"
    /\ csrf_token' = [csrf_token EXCEPT ![d] = get_token(response[d], TRUE)]
    /\ trace' = [trace EXCEPT ![d] = Append(@, EvToken(TRUE, response[d]))]
    /\ pc' = [pc EXCEPT ![d] = IF csrf_token'[d] = NoToken THEN "aborted" ELSE "login_post"]
    /\ UNCHANGED <<submit_url, server, state, response, resolved>>
    /\ UNCHANGED outside_run_requests

\* login_saml up to its call of login_saml_continue: the username/password
\* POST to URL_LOGIN and its raise_for_status.
LoginSaml(d) ==
    /\ pc[d] = "login_post"
    /\ \E resp \in ServerAnswers("login", URL_LOGIN) :
         /\ server' = [server EXCEPT !["login"] = resp]
         /\ response' = [response EXCEPT ![d] = resp]
         /\ pc' = [pc EXCEPT ![d] = IF raise_for_status(resp) THEN "aborted" ELSE "saml_continue"]
    /\ trace' = [trace EXCEPT ![d] =
                   Append(@, EvPost("login", URL_LOGIN, csrf_token[d],
                                    {"j_username", "j_password", "_eventId_proceed"}))]
    /\ UNCHANGED <<submit_url, state, csrf_token, resolved>>
    /\ UNCHANGED outside_run_requests

\* Mutant: the resume branch asks for the password as the full login does.
ResumeCredentials_WithPassword(d) ==
    /\ pc[d] = "resume_credentials"
    /\ resolved' = [resolved EXCEPT ![d] = @ \cup {"username", "password", "exam_number"}]
    /\ trace' = [trace EXCEPT ![d] =
                   @ \o <<EvEnsure("username"), EvEnsure("password"), EvEnsure("exam_number")>>]
    /\ pc' = [pc EXCEPT ![d] = "saml_continue"]
    /\ UNCHANGED <<submit_url, server, state, response, csrf_token>>
    /\ UNCHANGED outside_run_requests

\* Resume: ensure_username, ensure_exam_number.
ResumeCredentials(d) ==
    /\ pc[d] = "resume_credentials"
    /\ resolved' = [resolved EXCEPT ![d] = @ \cup {"username", "exam_number"}]
    /\ trace' = [trace EXCEPT ![d] = @ \o <<EvEnsure("username"), EvEnsure("exam_number")>>]
    /\ pc' = [pc EXCEPT ![d] = "saml_continue"]
    /\ UNCHANGED <<submit_url, server, state, response, csrf_token>>
    /\ UNCHANGED outside_run_requests

\* login_saml_continue on the response at hand, then the caller's
\* response.raise_for_status() (line 234).  A page without a form raises
\* before anything is sent.
LoginSamlContinue(d) ==
    /\ pc[d] = "saml_continue"
    /\ IF ~response[d].page.form.present
       THEN /\ pc' = [pc EXCEPT ![d] = "aborted"]
            /\ UNCHANGED <<server, response, trace>>
       ELSE /\ \E resp \in ServerAnswers("form", response[d].page.form.action) :
                 /\ server' = [server EXCEPT !["form"] = resp]
                 /\ response' = [response EXCEPT ![d] = resp]
                 /\ pc' = [pc EXCEPT ![d] =
                             IF raise_for_status(resp) THEN "aborted" ELSE "exam_token"]
            /\ trace' = [trace EXCEPT ![d] =
                           Append(@, EvPost("form", response[d].page.form.action,
                                            NoToken, {"hidden_inputs"}))]
    /\ UNCHANGED <<submit_url, state, csrf_token, resolved>>
    /\ UNCHANGED outside_run_requests

\* "the token changes after login": csrf_token = get_token(response)
ExamNumberToken(d) ==
    /\ pc[d] = "exam_token"
    /\ csrf_token' = [csrf_token EXCEPT ![d] = get_token(response[d], FALSE)]
    /\ trace' = [trace EXCEPT ![d] = Append(@, EvToken(FALSE, response[d]))]
    /\ pc' = [pc EXCEPT ![d] = IF csrf_token'[d] = NoToken THEN "aborted" ELSE "exam_post"]
    /\ UNCHANGED <<submit_url, server, state, response, resolved>>
    /\ UNCHANGED outside_run_requests

\* response = login_exam_number(session, csrf_token, exam_number);
\* response.raise_for_status()
LoginExamNumber(d) ==
    /\ pc[d] = "exam_post"
    /\ \E resp \in ServerAnswers("exam", URL_EXAM_NUMBER) :
         /\ server' = [server EXCEPT !["exam"] = resp]
         /\ response' = [response EXCEPT ![d] = resp]
         /\ pc' = [pc EXCEPT ![d] = IF raise_for_status(resp) THEN "aborted" ELSE "upload"]
    /\ trace' = [trace EXCEPT ![d] =
                   Append(@, EvPost("exam", URL_EXAM_NUMBER, csrf_token[d], {"examNumber"}))]
    /\ UNCHANGED <<submit_url, state, csrf_token, resolved>>
    /\ UNCHANGED outside_run_requests

\* Secondary-code branch: csrf_token = get_token(response)
SecondaryToken(d) ==
    /\ pc[d] = "secondary_token"
    /\ csrf_token' = [csrf_token EXCEPT ![d] = get_token(response[d], FALSE)]
    /\ trace' = [trace EXCEPT ![d] = Append(@, EvToken(FALSE, response[d]))]
    /\ pc' = [pc EXCEPT ![d] =
                IF csrf_token'[d] = NoToken THEN "aborted" ELSE "secondary_credentials"]
    /\ UNCHANGED <<submit_url, server, state, response, resolved>>
    /\ UNCHANGED outside_run_requests

\* Mutant: the secondary-code branch resolves the username first.
SecondaryCredentials_WithUsername(d) ==
    /\ pc[d] = "secondary_credentials"
    /\ resolved' = [resolved EXCEPT ![d] = @ \cup {"username", "exam_number"}]
    /\ trace' = [trace EXCEPT ![d] = @ \o <<EvEnsure("username"), EvEnsure("exam_number")>>]
    /\ pc' = [pc EXCEPT ![d] = "secondary_post"]
    /\ UNCHANGED <<submit_url, server, state, response, csrf_token>>
    /\ UNCHANGED outside_run_requests

\* Secondary-code branch: ensure_exam_number(args.username, ...)
SecondaryCredentials(d) ==
    /\ pc[d] = "secondary_credentials"
    /\ resolved' = [resolved EXCEPT ![d] = @ \cup {"exam_number"}]
    /\ trace' = [trace EXCEPT ![d] = Append(@, EvEnsure("exam_number"))]
    /\ pc' = [pc EXCEPT ![d] = "secondary_post"]
    /\ UNCHANGED <<submit_url, server, state, response, csrf_token>>
    /\ UNCHANGED outside_run_requests

\* Mutant: the status of the secondary-code POST is not checked.
SecondaryExamNumber_Unchecked(d) ==
    /\ pc[d] = "secondary_post"
    /\ \E resp \in ServerAnswers("exam", URL_EXAM_NUMBER) :
         /\ server' = [server EXCEPT !["exam"] = resp]
         /\ pc' = [pc EXCEPT ![d] = "upload"]
    /\ trace' = [trace EXCEPT ![d] =
                   Append(@, EvPost("exam", URL_EXAM_NUMBER, csrf_token[d], {"examNumber"}))]
    /\ UNCHANGED <<submit_url, state, response, csrf_token, resolved>>
    /\ UNCHANGED outside_run_requests

\* Mutant: a dry run skips the secondary-code POST too.
SecondaryExamNumber_SkippedUnderDryRun(d) ==
    /\ pc[d] = "secondary_post"
    /\ IF d
       THEN /\ pc' = [pc EXCEPT ![d] = "upload"]
            /\ UNCHANGED <<server, trace>>
       ELSE /\ \E resp \in ServerAnswers("exam", URL_EXAM_NUMBER) :
                 /\ server' = [server EXCEPT !["exam"] = resp]
                 /\ pc' = [pc EXCEPT ![d] =
                             IF raise_for_status(resp) THEN "aborted" ELSE "upload"]
            /\ trace' = [trace EXCEPT ![d] =
                           Append(@, EvPost("exam", URL_EXAM_NUMBER, csrf_token[d],
                                            {"examNumber"}))]
    /\ UNCHANGED <<submit_url, state, response, csrf_token, resolved>>
    /\ UNCHANGED outside_run_requests

\* Secondary-code branch: login_exam_number(session, csrf_token, exam_number).
\* The returned response is dropped: the local response stays the GET's.
\* login_exam_number itself raises for a failed status.
SecondaryExamNumber(d) ==
    /\ pc[d] = "secondary_post"
    /\ \E resp \in ServerAnswers("exam", URL_EXAM_NUMBER) :
         /\ server' = [server EXCEPT !["exam"] = resp]
         /\ pc' = [pc EXCEPT ![d] = IF raise_for_status(resp) THEN "aborted" ELSE "upload"]
    /\ trace' = [trace EXCEPT ![d] =
                   Append(@, EvPost("exam", URL_EXAM_NUMBER, csrf_token[d], {"examNumber"}))]
    /\ UNCHANGED <<submit_url, state, response, csrf_token, resolved>>
    /\ UNCHANGED outside_run_requests

\* Ready branch: csrf_token = get_token(response)
ReadyToken(d) ==
    /\ pc[d] = "ready_token"
    /\ csrf_token' = [csrf_token EXCEPT ![d] = get_token(response[d], FALSE)]
    /\ trace' = [trace EXCEPT ![d] = Append(@, EvToken(FALSE, response[d]))]
    /\ pc' = [pc EXCEPT ![d] = IF csrf_token'[d] = NoToken THEN "aborted" ELSE "upload"]
    /\ UNCHANGED <<submit_url, server, state, response, resolved>>
    /\ UNCHANGED outside_run_requests

\* Mutant: dry_run is not looked at.
Upload_IgnoresDryRun(d) ==
    /\ pc[d] = "upload"
    /\ \E resp \in ServerAnswers("upload", submit_url) :
         /\ server' = [server EXCEPT !["upload"] = resp]
         /\ response' = [response EXCEPT ![d] = resp]
         /\ pc' = [pc EXCEPT ![d] = IF raise_for_status(resp) THEN "aborted" ELSE "done"]
    /\ trace' = [trace EXCEPT ![d] =
                   Append(@, EvPost("upload", submit_url, csrf_token[d], {"file"}))]
    /\ UNCHANGED <<submit_url, state, csrf_token, resolved>>
    /\ UNCHANGED outside_run_requests

\* Mutant: the file is posted to the URL of the last response.
Upload_ToResponseUrl(d) ==
    /\ pc[d] = "upload"
    /\ IF d
       THEN /\ pc' = [pc EXCEPT ![d] = "done"]
            /\ UNCHANGED <<server, response, trace>>
       ELSE /\ \E resp \in ServerAnswers("upload", response[d].url) :
                 /\ server' = [server EXCEPT !["upload"] = resp]
                 /\ response' = [response EXCEPT ![d] = resp]
                 /\ pc' = [pc EXCEPT ![d] = IF raise_for_status(resp) THEN "aborted" ELSE "done"]
            /\ trace' = [trace EXCEPT ![d] =
                           Append(@, EvPost("upload", response[d].url, csrf_token[d], {"file"}))]
    /\ UNCHANGED <<submit_url, state, csrf_token, resolved>>
    /\ UNCHANGED outside_run_requests

\* Mutant: a failed upload is tried a second time.
Upload_RetriesOnce(d) ==
    /\ pc[d] = "upload"
    /\ IF d
       THEN /\ pc' = [pc EXCEPT ![d] = "done"]
            /\ UNCHANGED <<server, response, trace>>
       ELSE /\ \E resp \in ServerAnswers("upload", submit_url) :
                 /\ server' = [server EXCEPT !["upload"] = resp]
                 /\ response' = [response EXCEPT ![d] = resp]
                 /\ pc' = [pc EXCEPT ![d] =
                             IF ~raise_for_status(resp) THEN "done"
                             ELSE IF response[d].from = "upload" THEN "aborted"
                             ELSE "upload"]
            /\ trace' = [trace EXCEPT ![d] =
                           Append(@, EvPost("upload", submit_url, csrf_token[d], {"file"}))]
    /\ UNCHANGED <<submit_url, state, csrf_token, resolved>>
    /\ UNCHANGED outside_run_requests

\* The tail of run_requests: skipped under dry_run, else upload_assignment
\* and response.raise_for_status().  The run d has args.dry_run = d.
Upload(d) ==
    /\ pc[d] = "upload"
    /\ IF d
       THEN /\ pc' = [pc EXCEPT ![d] = "done"]
            /\ UNCHANGED <<server, response, trace>>
       ELSE /\ \E resp \in ServerAnswers("upload", submit_url) :
                 /\ server' = [server EXCEPT !["upload"] = resp]
                 /\ response' = [response EXCEPT ![d] = resp]
                 /\ pc' = [pc EXCEPT ![d] = IF raise_for_status(resp) THEN "aborted" ELSE "done"]
            /\ trace' = [trace EXCEPT ![d] =
                           Append(@, EvPost("upload", submit_url, csrf_token[d], {"file"}))]
    /\ UNCHANGED <<submit_url, state, csrf_token, resolved>>
    /\ UNCHANGED outside_run_requests

Next ==
    \E d \in Runs :
        \/ Get(d)
        \/ Dispatch(d)
        \/ FullLoginCredentials(d)
        \/ FullLoginToken(d)
        \/ LoginSaml(d)
        \/ ResumeCredentials(d)
        \/ LoginSamlContinue(d)
        \/ ExamNumberToken(d)
        \/ LoginExamNumber(d)
        \/ SecondaryToken(d)
        \/ SecondaryCredentials(d)
        \/ SecondaryExamNumber(d)
        \/ ReadyToken(d)
        \/ Upload(d)

Spec == Init /\ [][Next]_vars

\* One call of run_requests, with or without dry_run.
InitOneRun ==
    /\ submit_url \in SubmitUrls
    /\ server = [k \in Kinds |-> NoResponse]
    /\ pc \in {[d \in Runs |-> IF d = r THEN "get" ELSE "not_called"] : r \in Runs}
    /\ state = [d \in Runs |-> "none"]
    /\ response = [d \in Runs |-> NoResponse]
    /\ csrf_token = [d \in Runs |-> NoToken]
    /\ resolved = [d \in Runs |-> {}]
    /\ trace = [d \in Runs |-> <<>>]
    /\ ResolveIdle
    /\ MainIdle
    /\ CookiesIdle
    /\ SeleniumIdle

\* run_requests is sequential code: a run that can take a step takes it.
SpecFair == InitOneRun /\ [][Next]_vars /\ WF_vars(Next)

\* run_requests has not been called.
RunNotCalled ==
    /\ server = [k \in Kinds |-> NoResponse]
    /\ pc = [d \in Runs |-> "not_called"]
    /\ state = [d \in Runs |-> "none"]
    /\ response = [d \in Runs |-> NoResponse]
    /\ csrf_token = [d \in Runs |-> NoToken]
    /\ resolved = [d \in Runs |-> {}]
    /\ trace = [d \in Runs |-> <<>>]

\* No run of run_requests is under way.
RunIdle == submit_url = NoUrl /\ RunNotCalled

\* resolve_submit_url applied to every argument of SubmitUrlArguments.
InitResolve ==
    /\ ResolveInit
    /\ RunIdle
    /\ MainIdle
    /\ CookiesIdle
    /\ SeleniumIdle

SpecResolve == InitResolve /\ [][ResolveSubmitUrl]_vars

\* --------------------------------------------- cookie file round trip
\* A jar is saved as main saves it and later loaded as main loads it.
CookiesInit ==
    /\ cookies \in Jars
    /\ cookie_file = NoFile
    /\ now = 0
    /\ reloaded = NotLoaded

\* cookies.save(ignore_discard=True)
CookiesSave ==
    /\ ~cookie_file.exists
    /\ cookie_file' = LWPCookieJar_save(cookies, TRUE, FALSE, now)
    /\ UNCHANGED <<cookies, now, reloaded>>
    /\ UNCHANGED <<run_vars, resolve_vars, main_vars, selenium_vars>>

\* Time passes while the cookies are in the jar or in the file.
TimePasses ==
    /\ ~reloaded.done
    /\ now < MaxTime
    /\ now' = now + 1
    /\ UNCHANGED <<cookie_file, cookies, reloaded>>
    /\ UNCHANGED <<run_vars, resolve_vars, main_vars, selenium_vars>>

\* LWPCookieJar(args.cookie_file).load(ignore_discard=True) in a later
\* invocation.
CookiesLoad ==
    /\ cookie_file.exists
    /\ ~reloaded.done
    /\ reloaded' = Loaded(LWPCookieJar_load(cookie_file, TRUE, FALSE, now))
    /\ UNCHANGED <<cookie_file, cookies, now>>
    /\ UNCHANGED <<run_vars, resolve_vars, main_vars, selenium_vars>>

CookiesNext == CookiesSave \/ TimePasses \/ CookiesLoad

InitCookies ==
    /\ CookiesInit
    /\ RunIdle
    /\ ResolveIdle
    /\ MainIdle
    /\ SeleniumIdle

SpecCookies == InitCookies /\ [][CookiesNext]_vars

\* ------------------------------------------------------------------- main
\* What main does besides run_requests, as events of the trace of the run
\* args.dry_run: "unlink", "delete_from_keyring", "open" (the upload file),
\* "load" and "save" (the cookie file).
EvMain(op, kind) == Event(op, kind, NoUrl, NoToken, {}, "none")

\* delete_from_keyring(username): the entries are gone afterwards; entries
\* that were not there are no error.
delete_from_keyring(stored) == FALSE

\* The cookies the server may set during run_requests.
ServerCookies ==
    {Cookie(CookieDomain, "session", "a", TRUE, NoExpiry),
     Cookie(CookieDomain, "remember", "b", FALSE, MaxTime + 1)}

\* What the server may have set by the time run_requests is left: nothing,
\* or both cookies.
ServerCookieSets == {{}, ServerCookies}

\* The cookie file an earlier invocation may have left.
StoredCookieFiles ==
    {NoFile} \cup {LWPCookieJar_save(j, TRUE, FALSE, 0) : j \in {{}, ServerCookies}}

\* The keyring is named in main only under --delete-from-keyring; the clock
\* does not advance during one invocation.
MainInit ==
    /\ args \in Args
    /\ main_pc = "alternate"
    /\ upload_file \in BOOLEAN
    /\ keyring \in (IF args.delete_from_keyring THEN BOOLEAN ELSE {FALSE})
    /\ cookie_file \in StoredCookieFiles
    /\ cookies = {}
    /\ now = 0
    /\ reloaded = NotLoaded
    /\ submit_url \in SubmitUrls
    /\ RunNotCalled
    /\ ResolveIdle
    /\ SeleniumIdle

\* Mutant: unlink's FileNotFoundError is not caught.
AlternateOperations_UnlinkRaises ==
    /\ main_pc = "alternate"
    /\ LET unlinked == IF args.delete_cookies
                       THEN <<EvMain("unlink", IF cookie_file.exists
                                               THEN "deleted" ELSE "missing")>>
                       ELSE <<>>
           raised == args.delete_cookies /\ ~cookie_file.exists
           deleted == IF args.delete_from_keyring /\ ~raised
                      THEN <<EvEnsure("username"), EvMain("delete_from_keyring", "keyring")>>
                      ELSE <<>>
       IN  /\ trace' = [trace EXCEPT ![args.dry_run] = @ \o unlinked \o deleted]
           /\ keyring' = IF args.delete_from_keyring /\ ~raised
                         THEN delete_from_keyring(keyring) ELSE keyring
           /\ main_pc' = IF raised THEN "raised"
                         ELSE IF args.delete_cookies \/ args.delete_from_keyring
                         THEN "returned" ELSE "verify"
    /\ cookie_file' = IF args.delete_cookies THEN NoFile ELSE cookie_file
    /\ UNCHANGED <<args, upload_file, cookies, now, reloaded>>
    /\ UNCHANGED <<submit_url, server, pc, state, response, csrf_token, resolved>>
    /\ UNCHANGED <<resolve_vars, selenium_vars>>

\* main, "alternate operations": the cookie file is unlinked if
\* --delete-cookies is set, a missing file being reported and passed over;
\* the keyring entries are deleted if --delete-from-keyring is set; main
\* returns if either was set.
AlternateOperations ==
    /\ main_pc = "alternate"
    /\ LET unlinked == IF args.delete_cookies
                       THEN <<EvMain("unlink", IF cookie_file.exists
                                               THEN "deleted" ELSE "missing")>>
                       ELSE <<>>
           deleted == IF args.delete_from_keyring
                      THEN <<EvEnsure("username"), EvMain("delete_from_keyring", "keyring")>>
                      ELSE <<>>
       IN  trace' = [trace EXCEPT ![args.dry_run] = @ \o unlinked \o deleted]
    /\ cookie_file' = IF args.delete_cookies THEN NoFile ELSE cookie_file
    /\ keyring' = IF args.delete_from_keyring THEN delete_from_keyring(keyring) ELSE keyring
    /\ main_pc' = IF args.delete_cookies \/ args.delete_from_keyring
                  THEN "returned" ELSE "verify"
    /\ UNCHANGED <<args, upload_file, cookies, now, reloaded>>
    /\ UNCHANGED <<submit_url, server, pc, state, response, csrf_token, resolved>>
    /\ UNCHANGED <<resolve_vars, selenium_vars>>

\* Mutant: the upload file is not opened before the run.
VerifyArguments_NoFileCheck ==
    /\ main_pc = "verify"
    /\ main_pc' = "load_cookies"
    /\ UNCHANGED <<args, upload_file, keyring, cookie_vars>>
    /\ UNCHANGED <<run_vars, resolve_vars, selenium_vars>>

\* main, "verify arguments": the upload file is opened for its MD5 hash;
\* open raises FileNotFoundError if it does not exist.
VerifyArguments ==
    /\ main_pc = "verify"
    /\ IF upload_file
       THEN /\ trace' = [trace EXCEPT ![args.dry_run] = Append(@, EvMain("open", "file"))]
            /\ main_pc' = "load_cookies"
       ELSE /\ main_pc' = "raised"
            /\ UNCHANGED trace
    /\ UNCHANGED <<args, upload_file, keyring, cookie_vars>>
    /\ UNCHANGED <<submit_url, server, pc, state, response, csrf_token, resolved>>
    /\ UNCHANGED <<resolve_vars, selenium_vars>>

\* Mutant: the cookie file is loaded whether or not save_cookies is set.
LoadCookies_Always ==
    /\ main_pc = "load_cookies"
    /\ cookies' = IF cookie_file.exists
                  THEN LWPCookieJar_load(cookie_file, TRUE, FALSE, now)
                  ELSE {}
    /\ main_pc' = "run_requests_session"
    /\ UNCHANGED <<args, upload_file, keyring, cookie_file, now, reloaded>>
    /\ UNCHANGED <<run_vars, resolve_vars, selenium_vars>>

\* Mutant: the cookie file is not loaded.
LoadCookies_NotLoaded ==
    /\ main_pc = "load_cookies"
    /\ cookies' = {}
    /\ main_pc' = "run_requests_session"
    /\ UNCHANGED <<args, upload_file, keyring, cookie_file, now, reloaded>>
    /\ UNCHANGED <<run_vars, resolve_vars, selenium_vars>>

\* Mutant: the load's FileNotFoundError is not caught.
LoadCookies_MissingRaises ==
    /\ main_pc = "load_cookies"
    /\ IF args.save_cookies
       THEN /\ cookies' = IF cookie_file.exists
                          THEN LWPCookieJar_load(cookie_file, TRUE, FALSE, now)
                          ELSE {}
            /\ trace' = [trace EXCEPT ![args.dry_run] =
                           Append(@, EvMain("load", IF cookie_file.exists
                                                    THEN "loaded" ELSE "missing"))]
            /\ main_pc' = IF cookie_file.exists THEN "run_requests_session" ELSE "raised"
       ELSE /\ cookies' = {}
            /\ main_pc' = "run_requests_session"
            /\ UNCHANGED trace
    /\ UNCHANGED <<args, upload_file, keyring, cookie_file, now, reloaded>>
    /\ UNCHANGED <<submit_url, server, pc, state, response, csrf_token, resolved>>
    /\ UNCHANGED <<resolve_vars, selenium_vars>>

\* main, "load cookies": a new jar, loaded from the cookie file if
\* save_cookies is set; a missing file is reported and the jar stays empty.
LoadCookies ==
    /\ main_pc = "load_cookies"
    /\ IF args.save_cookies
       THEN /\ cookies' = IF cookie_file.exists
                          THEN LWPCookieJar_load(cookie_file, TRUE, FALSE, now)
                          ELSE {}
            /\ trace' = [trace EXCEPT ![args.dry_run] =
                           Append(@, EvMain("load", IF cookie_file.exists
                                                    THEN "loaded" ELSE "missing"))]
       ELSE /\ cookies' = {}
            /\ UNCHANGED trace
    /\ main_pc' = "run_requests_session"
    /\ UNCHANGED <<args, upload_file, keyring, cookie_file, now, reloaded>>
    /\ UNCHANGED <<submit_url, server, pc, state, response, csrf_token, resolved>>
    /\ UNCHANGED <<resolve_vars, selenium_vars>>

\* run_requests_session: the jar becomes the session's and run_requests is
\* called with args.
run_requests_session ==
    /\ main_pc = "run_requests_session"
    /\ pc' = [pc EXCEPT ![args.dry_run] = "get"]
    /\ main_pc' = "running"
    /\ UNCHANGED <<args, upload_file, keyring, cookie_vars>>
    /\ UNCHANGED <<submit_url, server, state, response, csrf_token, resolved, trace>>
    /\ UNCHANGED <<resolve_vars, selenium_vars>>

\* run_requests returned: the jar holds what was loaded and what the server
\* set meanwhile.
RunRequestsReturns ==
    /\ main_pc = "running"
    /\ pc[args.dry_run] = "done"
    /\ \E set \in ServerCookieSets : cookies' = set_cookies(cookies, set)
    /\ main_pc' = "save_cookies"
    /\ UNCHANGED <<args, upload_file, keyring, cookie_file, now, reloaded>>
    /\ UNCHANGED <<run_vars, resolve_vars, selenium_vars>>

\* Mutant: the jar is saved on the way out of a failed run.
RunRequestsRaises_SavesCookies ==
    /\ main_pc = "running"
    /\ pc[args.dry_run] = "aborted"
    /\ \E set \in ServerCookieSets :
         /\ cookies' = set_cookies(cookies, set)
         /\ cookie_file' = IF args.save_cookies
                           THEN LWPCookieJar_save(set_cookies(cookies, set), TRUE, FALSE, now)
                           ELSE cookie_file
    /\ main_pc' = "raised"
    /\ UNCHANGED <<args, upload_file, keyring, now, reloaded>>
    /\ UNCHANGED <<run_vars, resolve_vars, selenium_vars>>

\* run_requests raised: nothing in main catches it, and the statements after
\* the call are not reached.  The jar holds what was loaded and what the
\* server set before the error.
RunRequestsRaises ==
    /\ main_pc = "running"
    /\ pc[args.dry_run] = "aborted"
    /\ \E set \in ServerCookieSets : cookies' = set_cookies(cookies, set)
    /\ main_pc' = "raised"
    /\ UNCHANGED <<args, upload_file, keyring, cookie_file, now, reloaded>>
    /\ UNCHANGED <<run_vars, resolve_vars, selenium_vars>>

\* main, "save cookies": the jar is written to the cookie file if
\* save_cookies is set.
SaveCookies ==
    /\ main_pc = "save_cookies"
    /\ IF args.save_cookies
       THEN /\ cookie_file' = LWPCookieJar_save(cookies, TRUE, FALSE, now)
            /\ trace' = [trace EXCEPT ![args.dry_run] = Append(@, EvMain("save", "saved"))]
       ELSE UNCHANGED <<cookie_file, trace>>
    /\ main_pc' = "finished"
    /\ UNCHANGED <<args, upload_file, keyring, cookies, now, reloaded>>
    /\ UNCHANGED <<submit_url, server, pc, state, response, csrf_token, resolved>>
    /\ UNCHANGED <<resolve_vars, selenium_vars>>

MainNext ==
    \/ AlternateOperations
    \/ VerifyArguments
    \/ LoadCookies
    \/ run_requests_session
    \/ RunRequestsReturns
    \/ RunRequestsRaises
    \/ SaveCookies
    \/ \E d \in Runs :
        \/ Get(d)
        \/ Dispatch(d)
        \/ FullLoginCredentials(d)
        \/ FullLoginToken(d)
        \/ LoginSaml(d)
        \/ ResumeCredentials(d)
        \/ LoginSamlContinue(d)
        \/ ExamNumberToken(d)
        \/ LoginExamNumber(d)
        \/ SecondaryToken(d)
        \/ SecondaryCredentials(d)
        \/ SecondaryExamNumber(d)
        \/ ReadyToken(d)
        \/ Upload(d)

SpecMain == MainInit /\ [][MainNext]_vars

\* ----------------------------------------------------------- run_selenium
\* The steps and page arrivals of one run are counted up to MaxCount; a
\* counter at MaxCount stays there.
MaxCount == 2
Bump(n) == IF n < MaxCount THEN n + 1 ELSE n

\* Where the browser may be after a navigation.
BrowserUrls == ResolvedUrls

\* sel_count after the browser arrived at url.
Arrived(count, url) ==
    [count EXCEPT
        !["login_page"] = IF url = URL_LOGIN THEN Bump(@) ELSE @,
        !["exam_page"] = IF url = URL_EXAM_NUMBER THEN Bump(@) ELSE @]

SeleniumInit ==
    /\ sel_pc = "get"
    /\ current_url = NoUrl
    /\ sel_count = [s \in {"login", "exam_number", "login_page", "exam_page"} |-> 0]
    /\ args \in {a \in Args : ~a.delete_cookies /\ ~a.delete_from_keyring /\ ~a.save_cookies}
    /\ main_pc = "not_called"
    /\ upload_file = FALSE
    /\ keyring = FALSE
    /\ submit_url \in SubmitUrls
    /\ RunNotCalled
    /\ ResolveIdle
    /\ CookiesIdle

\* while True: driver.get(submit_url)
SeleniumGet ==
    /\ sel_pc = "get"
    /\ \E url \in BrowserUrls :
         /\ current_url' = url
         /\ sel_count' = Arrived(sel_count, url)
    /\ sel_pc' = "dispatch"
    /\ UNCHANGED <<run_vars, resolve_vars, main_vars, cookie_vars>>

\* The if / elif / elif / else on driver.current_url.
SeleniumDispatch ==
    /\ sel_pc = "dispatch"
    /\ sel_pc' = IF current_url = URL_LOGIN THEN "login"
                 ELSE IF current_url = URL_EXAM_NUMBER THEN "exam_number"
                 ELSE IF current_url = submit_url THEN "upload"
                 ELSE "raised"
    /\ UNCHANGED <<current_url, sel_count>>
    /\ UNCHANGED <<run_vars, resolve_vars, main_vars, cookie_vars>>

\* login(driver, username, password), then wait.until the URL is the
\* exam-number URL or submit_url: the loop goes round if it becomes so, and
\* TimeoutException is raised if it does not.
SeleniumLogin ==
    /\ sel_pc = "login"
    /\ \E url \in BrowserUrls :
         /\ current_url' = url
         /\ IF url \in {URL_EXAM_NUMBER, submit_url}
            THEN /\ sel_pc' = "get"
                 /\ sel_count' = Arrived([sel_count EXCEPT !["login"] = Bump(@)], url)
            ELSE /\ sel_pc' = "raised"
                 /\ sel_count' = [sel_count EXCEPT !["login"] = Bump(@)]
    /\ UNCHANGED <<run_vars, resolve_vars, main_vars, cookie_vars>>

\* enter_exam_number(driver, exam_number), then wait.until the URL is
\* submit_url.
SeleniumExamNumber ==
    /\ sel_pc = "exam_number"
    /\ \E url \in BrowserUrls :
         /\ current_url' = url
         /\ IF url = submit_url
            THEN /\ sel_pc' = "get"
                 /\ sel_count' = Arrived([sel_count EXCEPT !["exam_number"] = Bump(@)], url)
            ELSE /\ sel_pc' = "raised"
                 /\ sel_count' = [sel_count EXCEPT !["exam_number"] = Bump(@)]
    /\ UNCHANGED <<run_vars, resolve_vars, main_vars, cookie_vars>>

\* upload(driver, file_name, dry_run); without dry_run wait.until the
\* success alert shows, which it may not; break.
SeleniumUpload ==
    /\ sel_pc = "upload"
    /\ \E alert \in BOOLEAN :
         sel_pc' = IF args.dry_run \/ alert THEN "done" ELSE "raised"
    /\ UNCHANGED <<current_url, sel_count>>
    /\ UNCHANGED <<run_vars, resolve_vars, main_vars, cookie_vars>>

SeleniumNext ==
    \/ SeleniumGet
    \/ SeleniumDispatch
    \/ SeleniumLogin
    \/ SeleniumExamNumber
    \/ SeleniumUpload

\* The loop is sequential code: it steps while it can.
SpecSelenium == SeleniumInit /\ [][SeleniumNext]_vars /\ WF_vars(SeleniumNext)

\* ------------------------------------------------------ reading the trace
IsPrefix(s, t) == Len(s) <= Len(t) /\ \A i \in 1..Len(s) : s[i] = t[i]

IsRequest(e) == e.op \in {"GET", "POST"}
Requests(t) == SelectSeq(t, IsRequest)
IsNetworkOrToken(e) == e.op \in {"GET", "POST", "get_token"}
NetworkAndTokens(t) == SelectSeq(t, IsNetworkOrToken)
IsUploadPost(e) == e.op = "POST" /\ e.kind = "upload"
IsNotUploadPost(e) == ~IsUploadPost(e)

\* An event without its token and payload: what was done, to which URL,
\* on which response.
Shape(e) == [op |-> e.op, kind |-> e.kind, url |-> e.url, src |-> e.src]
Shapes(t) == [i \in 1..Len(t) |-> Shape(t[i])]

PostCount(d, kind) ==
    Cardinality({i \in 1..Len(trace[d]) :
                   trace[d][i].op = "POST" /\ trace[d][i].kind = kind})

\* The run has the response of its initial GET.
Fetched(d) == pc[d] # "get"
ResolvedUrl == server["get"].url

\* The resolved URL has the host and path of the login endpoint.
AtLoginEndpoint(url) ==
    /\ Hostname(url.netloc) = Hostname(URL_LOGIN.netloc)
    /\ url.path = URL_LOGIN.path
FreshLoginUrl(url) == AtLoginEndpoint(url) /\ url.query = URL_LOGIN.query
ResumeUrl(url) == AtLoginEndpoint(url) /\ url.query # URL_LOGIN.query

\* The upload POST of a run that is not a dry run.
UploadTail(d) ==
    IF d THEN <<>> ELSE <<Shape(EvPost("upload", submit_url, NoToken, {}))>>

\* The only reasons for which a run stops short of the end: a response with
\* a failed status, an unrecognised resolved URL, a page without the token
\* asked of it, a page without the form to post back.
LastRequest(d) == Requests(trace[d])[Len(Requests(trace[d]))]
LastEvent(d) == trace[d][Len(trace[d])]
AbortCause(d) ==
    \/ raise_for_status(server[LastRequest(d).kind])
    \/ state[d] = "Unexpected"
    \/ /\ LastEvent(d).op = "get_token"
       /\ get_token(server[LastEvent(d).src], LastEvent(d).kind = "login_page") = NoToken
    \/ /\ state[d] \in {"NeedsFullLogin", "NeedsSecondaryCodeResume"}
       /\ PostCount(d, "form") = 0
       /\ ~server[LastRequest(d).kind].page.form.present

\* --------------------------------------------------------------- claim C1
\* C1: when the initial GET resolves to the login endpoint with the
\* fresh-login query, the network requests and token extractions of the run
\* are, in this order and with nothing else: the GET, a token extraction in
\* login-page mode from the GET's response, the login POST to the login
\* endpoint, the intermediate-form POST to the action URL of the form in the
\* login POST's response, a token extraction in non-login mode from the
\* intermediate-form POST's response, the secondary-code POST, and the
\* upload POST unless dry-run.  A run that stops short has done a prefix of
\* the sequence, and stops only for a failed status or a missing token or
\* form.
FreshLoginSequence(d) ==
    << Shape(EvGet(submit_url)),
       Shape(EvToken(TRUE, server["get"])),
       Shape(EvPost("login", URL_LOGIN, NoToken, {})),
       Shape(EvPost("form", server["login"].page.form.action, NoToken, {})),
       Shape(EvToken(FALSE, server["form"])),
       Shape(EvPost("exam", URL_EXAM_NUMBER, NoToken, {})) >> \o UploadTail(d)

C1_FreshLoginSequence ==
    \A d \in Runs :
        Fetched(d) /\ FreshLoginUrl(ResolvedUrl) =>
            /\ IsPrefix(Shapes(NetworkAndTokens(trace[d])), FreshLoginSequence(d))
            /\ pc[d] = "done" =>
                   Shapes(NetworkAndTokens(trace[d])) = FreshLoginSequence(d)
            /\ pc[d] = "aborted" => AbortCause(d)

C1_Witness ==
    /\ pc[FALSE] = "done"
    /\ FreshLoginUrl(ResolvedUrl)
    /\ PostCount(FALSE, "login") = 1
    /\ PostCount(FALSE, "upload") = 1

\* --------------------------------------------------------------- claim C2
\* C2 as stated: when the initial GET resolves to exactly the submit URL, the
\* run issues no login POST, no intermediate-form POST and no secondary-code
\* POST, and once finished has issued one upload POST if dry-run is off and
\* none if it is on.
C2_ReadyOnlyUploads_AsStated ==
    \A d \in Runs :
        Fetched(d) /\ ResolvedUrl = submit_url =>
            /\ PostCount(d, "login") = 0
            /\ PostCount(d, "form") = 0
            /\ PostCount(d, "exam") = 0
            /\ PostCount(d, "upload") <= (IF d THEN 0 ELSE 1)
            /\ pc[d] = "done" => PostCount(d, "upload") = (IF d THEN 0 ELSE 1)
            /\ pc[d] = "aborted" => AbortCause(d)

\* C2 amended: the same, when the submit URL is not itself the
\* secondary-confirmation endpoint.
C2_ReadyOnlyUploads ==
    \A d \in Runs :
        Fetched(d) /\ ResolvedUrl = submit_url /\ submit_url # URL_EXAM_NUMBER =>
            /\ PostCount(d, "login") = 0
            /\ PostCount(d, "form") = 0
            /\ PostCount(d, "exam") = 0
            /\ PostCount(d, "upload") <= (IF d THEN 0 ELSE 1)
            /\ pc[d] = "done" => PostCount(d, "upload") = (IF d THEN 0 ELSE 1)
            /\ pc[d] = "aborted" => AbortCause(d)

C2_Witness ==
    /\ ResolvedUrl = submit_url
    /\ submit_url # URL_EXAM_NUMBER
    /\ pc[FALSE] = "done" /\ PostCount(FALSE, "upload") = 1
    /\ pc[TRUE] = "done" /\ PostCount(TRUE, "upload") = 0

\* --------------------------------------------------------------- claim C3
\* C3: when the initial GET resolves to exactly the secondary-confirmation
\* endpoint, the requests of the run are the GET, one secondary-code POST
\* and then, unless dry-run, one upload POST, in this order; no login POST
\* and no intermediate-form POST is ever issued.  A run that stops short has
\* done a prefix, and stops only for a failed status or a missing token.
SecondaryCodeSequence(d) ==
    << Shape(EvGet(submit_url)),
       Shape(EvPost("exam", URL_EXAM_NUMBER, NoToken, {})) >> \o UploadTail(d)

C3_SecondaryCodeSequence ==
    \A d \in Runs :
        Fetched(d) /\ ResolvedUrl = URL_EXAM_NUMBER =>
            /\ IsPrefix(Shapes(Requests(trace[d])), SecondaryCodeSequence(d))
            /\ pc[d] = "done" => Shapes(Requests(trace[d])) = SecondaryCodeSequence(d)
            /\ PostCount(d, "login") = 0
            /\ PostCount(d, "form") = 0
            /\ pc[d] = "aborted" => AbortCause(d)

C3_Witness ==
    /\ ResolvedUrl = URL_EXAM_NUMBER
    /\ pc[FALSE] = "done"
    /\ PostCount(FALSE, "exam") = 1
    /\ PostCount(FALSE, "upload") = 1

\* --------------------------------------------------------------- claim C4
\* C4: when the initial GET resolves to a URL that is none of the login
\* endpoint, the secondary-confirmation endpoint and the submit URL, the run
\* aborts: the GET stays its only request, it extracts no token, resolves no
\* credential and never finishes.
Unrecognised(url) ==
    /\ ~AtLoginEndpoint(url)
    /\ url # URL_EXAM_NUMBER
    /\ url # submit_url

C4_UnexpectedRedirectAborts ==
    \A d \in Runs :
        Fetched(d) /\ Unrecognised(ResolvedUrl) =>
            /\ trace[d] = <<EvGet(submit_url)>>
            /\ resolved[d] = {}
            /\ pc[d] \in {"dispatch", "aborted"}

C4_Witness ==
    /\ Unrecognised(ResolvedUrl)
    /\ ~raise_for_status(server["get"])
    /\ pc[FALSE] = "aborted"
    /\ state[FALSE] = "Unexpected"

\* --------------------------------------------------------------- claim C5
\* C5: when the initial GET resolves to the login endpoint's host and path
\* with a query other than the fresh-login query, the requests of the run
\* are the GET, one intermediate-form POST to the action URL of the form in
\* the GET's response, one secondary-code POST and then, unless dry-run, the
\* upload POST; there is no login POST and the password is never resolved.
\* A run that stops short has done a prefix, and stops only for a failed
\* status or a missing token or form.
ResumeSequence(d) ==
    << Shape(EvGet(submit_url)),
       Shape(EvPost("form", server["get"].page.form.action, NoToken, {})),
       Shape(EvPost("exam", URL_EXAM_NUMBER, NoToken, {})) >> \o UploadTail(d)

C5_ResumeSequence ==
    \A d \in Runs :
        Fetched(d) /\ ResumeUrl(ResolvedUrl) =>
            /\ IsPrefix(Shapes(Requests(trace[d])), ResumeSequence(d))
            /\ pc[d] = "done" => Shapes(Requests(trace[d])) = ResumeSequence(d)
            /\ PostCount(d, "login") = 0
            /\ "password" \notin resolved[d]
            /\ \A i \in 1..Len(trace[d]) : trace[d][i] # EvEnsure("password")
            /\ pc[d] = "aborted" => AbortCause(d)

C5_Witness ==
    /\ ResumeUrl(ResolvedUrl)
    /\ pc[FALSE] = "done"
    /\ PostCount(FALSE, "form") = 1
    /\ PostCount(FALSE, "exam") = 1
    /\ resolved[FALSE] = {"username", "exam_number"}


\* --------------------------------------------------------------- claim C6
\* C6: whichever request of a run (initial GET, login POST, intermediate-form
\* POST, secondary-code POST, upload POST) is answered with a failed status,
\* in whichever branch, it is the last request of that run, and the run has
\* aborted.
C6_FailedStatusAborts ==
    \A d \in Runs :
        \A i \in 1..Len(trace[d]) :
            IsRequest(trace[d][i]) /\ raise_for_status(server[trace[d][i].kind]) =>
                /\ \A j \in (i + 1)..Len(trace[d]) : ~IsRequest(trace[d][j])
                /\ pc[d] = "aborted"

\* The secondary-code POST of the secondary-code branch failed, where only
\* login_exam_number checks the status.
C6_Witness ==
    /\ state[FALSE] = "NeedsSecondaryCode"
    /\ PostCount(FALSE, "exam") = 1
    /\ raise_for_status(server["exam"])
    /\ pc[FALSE] = "aborted"

\* --------------------------------------------------------------- claim C7
\* C7: every POST that carries a token carries the token of the most recent
\* response the run received before that POST: the hidden input's for the
\* login POST, the meta tag's for the secondary-code POST and for the upload
\* POST.
ResponseBefore(d, i) ==
    LET earlier == {j \in 1..(i - 1) : IsRequest(trace[d][j])}
        last == CHOOSE j \in earlier : \A k \in earlier : k <= j
    IN  server[trace[d][last].kind]

C7_TokenFromLatestResponse ==
    \A d \in Runs :
        \A i \in 1..Len(trace[d]) :
            trace[d][i].op = "POST" /\ trace[d][i].kind \in {"login", "exam", "upload"} =>
                trace[d][i].token =
                    get_token(ResponseBefore(d, i), trace[d][i].kind = "login")

\* --------------------------------------------------------------- claim C8
\* C8 as stated: against the same server, what the dry run does (requests,
\* token extractions, credential resolutions) is what the other run does
\* with its upload POST removed, and the dry run sends no POST to the submit
\* URL.
Terminated(d) == pc[d] \in {"done", "aborted"}

C8_DryRunEquivalence_AsStated ==
    /\ Terminated(TRUE) /\ Terminated(FALSE) =>
           trace[TRUE] = SelectSeq(trace[FALSE], IsNotUploadPost)
    /\ \A i \in 1..Len(trace[TRUE]) :
           ~(trace[TRUE][i].op = "POST" /\ trace[TRUE][i].url = submit_url)

\* C8 amended: the same, except that the dry run sends no upload POST, and
\* sends no POST that the other run does not send.
C8_DryRunEquivalence ==
    /\ Terminated(TRUE) /\ Terminated(FALSE) =>
           /\ trace[TRUE] = SelectSeq(trace[FALSE], IsNotUploadPost)
           /\ Len(SelectSeq(trace[FALSE], IsUploadPost)) <= 1
           /\ \A i \in 1..Len(trace[FALSE]) :
                  IsUploadPost(trace[FALSE][i]) => i = Len(trace[FALSE])
    /\ \A i \in 1..Len(trace[TRUE]) : ~IsUploadPost(trace[TRUE][i])

C8_Witness ==
    /\ pc[TRUE] = "done" /\ pc[FALSE] = "done"
    /\ state[FALSE] = "NeedsSecondaryCode"
    /\ Len(trace[FALSE]) = Len(trace[TRUE]) + 1
    /\ IsUploadPost(trace[FALSE][Len(trace[FALSE])])

\* --------------------------------------------------------------- claim C9
\* C9 as stated: the branch taken is decided by the resolved URL of the
\* initial GET alone: full login iff its host, path and query are the login
\* endpoint's; resume iff host and path are and the query is not; secondary
\* code iff it is the secondary-confirmation endpoint; ready iff it is the
\* submit URL; unexpected iff none of these.
C9_StateFromUrl_AsStated ==
    \A d \in Runs :
        state[d] # "none" =>
            /\ state[d] = "NeedsFullLogin" <=> FreshLoginUrl(ResolvedUrl)
            /\ state[d] = "NeedsSecondaryCodeResume" <=> ResumeUrl(ResolvedUrl)
            /\ state[d] = "NeedsSecondaryCode" <=> ResolvedUrl = URL_EXAM_NUMBER
            /\ state[d] = "Ready" <=> ResolvedUrl = submit_url
            /\ state[d] = "Unexpected" <=> Unrecognised(ResolvedUrl)

\* C9 amended: the same, with ready iff the resolved URL is the submit URL
\* and is not the secondary-confirmation endpoint; every run that got a
\* successful response takes exactly one branch, the same for both values of
\* the dry-run flag and whatever credentials were resolved.
C9_StateFromUrl ==
    /\ \A d \in Runs :
        state[d] # "none" =>
            /\ state[d] = "NeedsFullLogin" <=> FreshLoginUrl(ResolvedUrl)
            /\ state[d] = "NeedsSecondaryCodeResume" <=> ResumeUrl(ResolvedUrl)
            /\ state[d] = "NeedsSecondaryCode" <=> ResolvedUrl = URL_EXAM_NUMBER
            /\ state[d] = "Ready" <=>
                   (ResolvedUrl = submit_url /\ ResolvedUrl # URL_EXAM_NUMBER)
            /\ state[d] = "Unexpected" <=> Unrecognised(ResolvedUrl)
    /\ \A d \in Runs :
        Fetched(d) /\ pc[d] # "dispatch" /\ ~raise_for_status(server["get"]) =>
            state[d] \in {"NeedsFullLogin", "NeedsSecondaryCodeResume",
                          "NeedsSecondaryCode", "Ready", "Unexpected"}
    /\ state[TRUE] # "none" /\ state[FALSE] # "none" => state[TRUE] = state[FALSE]

C9_Witness ==
    /\ ResolvedUrl = URL_EXAM_NUMBER
    /\ submit_url = URL_EXAM_NUMBER
    /\ state[FALSE] = "NeedsSecondaryCode"
    /\ state[TRUE] = "NeedsSecondaryCode"

\* -------------------------------------------------------------- claim C10
\* C10: a run in the ready state resolves no credential; in the
\* secondary-code state it resolves nothing but the secondary code; in the
\* resume state nothing but the username and the secondary code; the
\* password is resolved in the full-login state only; and nothing is
\* resolved before the state is known.
Ensured(d) ==
    {trace[d][i].kind : i \in {j \in 1..Len(trace[d]) : trace[d][j].op = "ensure"}}

C10_LazyCredentials ==
    \A d \in Runs :
        /\ resolved[d] = Ensured(d)
        /\ state[d] \in {"none", "Ready", "Unexpected"} => Ensured(d) = {}
        /\ state[d] = "NeedsSecondaryCode" => Ensured(d) \subseteq {"exam_number"}
        /\ state[d] = "NeedsSecondaryCodeResume" =>
               Ensured(d) \subseteq {"username", "exam_number"}
        /\ "password" \in Ensured(d) => state[d] = "NeedsFullLogin"

C10_Witness ==
    /\ state[FALSE] = "NeedsSecondaryCode"
    /\ pc[FALSE] = "done"
    /\ Ensured(FALSE) = {"exam_number"}

\* -------------------------------------------------------------- claim C11
\* The canonical absolute URL of a target: the base URL, a slash, the path.
Canonical(path) == URL_SUBMIT_BASE \o <<"/">> \o path

\* C11 as stated: resolve_submit_url maps every spelling of a target (bare
\* path, path with leading slash, path with the "/student" base path in
\* front, fully-qualified URL, the host given without the scheme, any of
\* these with trailing slashes) to the target's canonical absolute URL.
C11_AllSpellingsCanonical_AsStated ==
    \A path \in TargetPaths :
        rs_output # Pending /\ rs_input \in SpecifiedSpellings(path) =>
            rs_output = Returned(Canonical(path))

\* C11 amended: resolve_submit_url maps the bare path, the path with leading
\* slashes, the fully-qualified URL starting with the base URL (scheme
\* included), and any of these with trailing slashes, to the target's
\* canonical absolute URL.
C11_DocumentedSpellingsCanonical ==
    \A path \in TargetPaths :
        rs_output # Pending /\ rs_input \in DocumentedSpellings(path) =>
            rs_output = Returned(Canonical(path))

\* The fully-qualified URL with a trailing slash, and the path with a
\* leading slash, have been resolved to the same URL.
C11_Witness ==
    \/ /\ rs_input = URL_SUBMIT_BASE \o <<"/", "x", "/", "x", "/">>
       /\ rs_output = Returned(Canonical(<<"x", "/", "x">>))
    \/ /\ rs_input = <<"/", "x", "/", "x">>
       /\ rs_output = Returned(Canonical(<<"x", "/", "x">>))

\* -------------------------------------------------------------- claim C20
\* C20: for every argument, resolve_submit_url returns a URL that starts
\* with the base URL followed by "/" and does not end with "/".
C20_BasePrefixNoTrailingSlash ==
    rs_output # Pending =>
        /\ StartsWith(rs_output[2], URL_SUBMIT_BASE \o <<"/">>)
        /\ rs_output[2][Len(rs_output[2])] # "/"

\* -------------------------------------------------------------- claim C12
\* C12: when the element of the requested mode is absent from the page
\* (the hidden input csrf_token in login-page mode, the meta tag csrf-token
\* otherwise), whether or not the other mode's element is there, the
\* extraction fails: no token is taken, the run has aborted, and the
\* extraction is the last thing the run did, so no POST follows it.
ExpectedElement(e) ==
    IF e.kind = "login_page"
    THEN server[e.src].page.input_csrf_token
    ELSE server[e.src].page.meta_csrf_token

C12_MissingTokenAborts ==
    \A d \in Runs :
        \A i \in 1..Len(trace[d]) :
            trace[d][i].op = "get_token" /\ ExpectedElement(trace[d][i]) = NoToken =>
                /\ i = Len(trace[d])
                /\ pc[d] = "aborted"
                /\ csrf_token[d] = NoToken

\* A login page with the meta tag and without the hidden input.
C12_Witness ==
    /\ state[FALSE] = "NeedsFullLogin"
    /\ server["get"].page.input_csrf_token = NoToken
    /\ server["get"].page.meta_csrf_token # NoToken
    /\ LastEvent(FALSE).op = "get_token"
    /\ pc[FALSE] = "aborted"

\* -------------------------------------------------------------- claim C13
\* C13: run_requests is a single forward pass.  Whatever the server answers,
\* a call fetches the submit URL once, issues each of the login POST, the
\* intermediate-form POST, the secondary-code POST and the upload POST at
\* most once, makes at most five requests, only ever moves to a later
\* position of the function, and terminates.
PcRank(p) ==
    CASE p = "get"                   -> 0
      [] p = "dispatch"              -> 1
      [] p = "full_credentials"      -> 2
      [] p = "full_token"            -> 3
      [] p = "login_post"            -> 4
      [] p = "resume_credentials"    -> 5
      [] p = "saml_continue"         -> 6
      [] p = "exam_token"            -> 7
      [] p = "exam_post"             -> 8
      [] p = "secondary_token"       -> 9
      [] p = "secondary_credentials" -> 10
      [] p = "secondary_post"        -> 11
      [] p = "ready_token"           -> 12
      [] p = "upload"                -> 13
      [] OTHER                       -> 14

GetCount(d) ==
    Cardinality({i \in 1..Len(trace[d]) : trace[d][i].op = "GET"})

AtMostOnceEach ==
    \A d \in Runs :
        /\ GetCount(d) = (IF pc[d] \in {"not_called", "get"} THEN 0 ELSE 1)
        /\ \A k \in {"login", "form", "exam", "upload"} : PostCount(d, k) <= 1
        /\ Len(Requests(trace[d])) <= 5

MovesForward ==
    \A d \in Runs : pc'[d] # pc[d] => PcRank(pc'[d]) > PcRank(pc[d])

C13_SingleForwardPass ==
    /\ []AtMostOnceEach
    /\ [][MovesForward]_vars
    /\ <>(\A d \in Runs : pc[d] \in {"not_called", "done", "aborted"})

\* The longest run: five requests, each made once.
C13_Witness ==
    /\ pc[FALSE] = "done"
    /\ Len(Requests(trace[FALSE])) = 5
    /\ GetCount(FALSE) = 1
    /\ \A k \in {"login", "form", "exam", "upload"} : PostCount(FALSE, k) = 1

\* -------------------------------------------------------------- claim C18
\* The cookie of the saved jar is in the reloaded jar with the same domain,
\* name and value.
Survives(c) ==
    \E r \in reloaded.jar :
        <<r.domain, r.name, r.value>> = <<c.domain, c.name, c.value>>

\* C18 as stated: after a save and a load, both with ignore_discard, every
\* cookie of the saved jar is in the loaded jar with equal domain, name and
\* value.
C18_RoundTrip_AsStated ==
    reloaded.done => \A c \in cookies : Survives(c)

\* C18, amended: after a save and a load, both with ignore_discard, every
\* cookie of the saved jar whose expiry time has not passed when the file is
\* loaded, cookies marked discard included, is in the loaded jar with equal
\* domain, name and value.
C18_RoundTripOfUnexpired ==
    reloaded.done =>
        \A c \in cookies : ~is_expired(c, now) => Survives(c)

\* A session-only cookie came back after time had passed.
C18_Witness ==
    /\ reloaded.done
    /\ now > 0
    /\ \E c \in cookies : c.discard /\ c.expires = NoExpiry /\ Survives(c)

\* ------------------------------------------------- reading main's trace
MainTrace == trace[args.dry_run]

\* The positions of MainTrace holding an event of one of the ops.
Positions(ops) == {i \in 1..Len(MainTrace) : MainTrace[i].op \in ops}

NetworkOps == {"GET", "POST"}

DeleteFlag == args.delete_cookies \/ args.delete_from_keyring

\* -------------------------------------------------------------- claim C15
\* C15 as stated: if the file of --file does not exist, main makes no
\* network request, does not load the cookie file and does not save
\* cookies, and it ends in no other way than by the error.
C15_MissingFileAborts_AsStated ==
    ~upload_file =>
        /\ Positions(NetworkOps \cup {"load", "save"}) = {}
        /\ main_pc \in {"alternate", "verify", "raised"}

\* C15, amended: if the file of --file does not exist, main makes no network
\* request, does not load the cookie file and does not save cookies; with
\* neither delete flag set it ends in no other way than by the error, with
\* a delete flag set it returns before the file is looked at.
C15_MissingFileAborts ==
    ~upload_file =>
        /\ Positions(NetworkOps \cup {"load", "save"}) = {}
        /\ pc = [d \in Runs |-> "not_called"]
        /\ IF DeleteFlag
           THEN main_pc \in {"alternate", "returned"}
           ELSE main_pc \in {"alternate", "verify", "raised"}

\* The file is missing, cookie saving is on, a cookie file is there: main
\* has raised.
C15_Witness ==
    /\ ~upload_file
    /\ args.save_cookies
    /\ cookie_file.exists
    /\ main_pc = "raised"

\* -------------------------------------------------------------- claim C16
\* C16: with --delete-cookies or --delete-from-keyring set, main makes no
\* network request, does not load or save cookies and does not open the
\* upload file; it ends only by returning, and has then unlinked the cookie
\* file if --delete-cookies was set (a missing file being no error) and
\* deleted the keyring entries if --delete-from-keyring was set, also when
\* the cookie file was missing.
C16_DeleteFlagsOnlyDelete ==
    DeleteFlag =>
        /\ Positions(NetworkOps \cup {"load", "save", "open"}) = {}
        /\ pc = [d \in Runs |-> "not_called"]
        /\ cookies = {}
        /\ main_pc \in {"alternate", "returned"}
        /\ main_pc = "returned" =>
            /\ args.delete_cookies =>
                 ~cookie_file.exists /\ Positions({"unlink"}) # {}
            /\ ~args.delete_cookies => Positions({"unlink"}) = {}
            /\ args.delete_from_keyring =>
                 ~keyring /\ Positions({"delete_from_keyring"}) # {}
            /\ ~args.delete_from_keyring => Positions({"delete_from_keyring"}) = {}

\* Both flags, no cookie file: the keyring entries were deleted all the same.
C16_Witness ==
    /\ args.delete_cookies
    /\ args.delete_from_keyring
    /\ main_pc = "returned"
    /\ \E i \in Positions({"unlink"}) : MainTrace[i].kind = "missing"
    /\ Positions({"delete_from_keyring"}) # {}
    /\ ~keyring

\* -------------------------------------------------------------- claim C17
\* C17: with cookie saving enabled the cookie file is loaded at most once
\* and saved at most once and never between two network requests; when main
\* has finished it was loaded exactly once, before every network request,
\* and saved exactly once, after every network request.
C17_LoadFirstSaveLast ==
    args.save_cookies =>
        /\ Cardinality(Positions({"load"})) <= 1
        /\ Cardinality(Positions({"save"})) <= 1
        /\ \A i, k \in Positions(NetworkOps) :
               \A j \in Positions({"load", "save"}) : ~(i < j /\ j < k)
        /\ main_pc = "finished" =>
            /\ Cardinality(Positions({"load"})) = 1
            /\ Cardinality(Positions({"save"})) = 1
            /\ \A r \in Positions(NetworkOps) :
                   /\ \A l \in Positions({"load"}) : l < r
                   /\ \A v \in Positions({"save"}) : r < v

\* A finished run that went through the full login and uploaded.
C17_Witness ==
    /\ args.save_cookies
    /\ ~args.dry_run
    /\ main_pc = "finished"
    /\ Cardinality(Positions(NetworkOps)) = 5
    /\ MainTrace[Len(MainTrace)].op = "save"
    /\ MainTrace[Len(MainTrace) - 1].kind = "upload"

\* -------------------------------------------------------------- claim C19
\* C19: when the cookie file is missing at the load, main goes on to call
\* run_requests with an empty jar; it raises only if run_requests raised,
\* and when it has finished the cookie file exists.
MissingOnLoad == \E i \in Positions({"load"}) : MainTrace[i].kind = "missing"

C19_MissingCookieFileTolerated ==
    MissingOnLoad =>
        /\ main_pc \in {"run_requests_session", "running", "save_cookies",
                        "finished", "raised"}
        /\ main_pc = "run_requests_session" => cookies = {}
        /\ main_pc = "running" /\ pc[args.dry_run] = "get" => cookies = {}
        /\ main_pc = "raised" => pc[args.dry_run] = "aborted"
        /\ main_pc = "finished" =>
            /\ pc[args.dry_run] = "done"
            /\ cookie_file.exists
            /\ Positions({"save"}) # {}

\* No cookie file at the load, the upload made, the cookie file written.
C19_Witness ==
    /\ MissingOnLoad
    /\ ~args.dry_run
    /\ main_pc = "finished"
    /\ \E i \in Positions({"POST"}) : MainTrace[i].kind = "upload"
    /\ cookie_file.exists

\* -------------------------------------------------------------- claim C14
\* C14: whatever the server does, one run of run_selenium performs the login
\* step at most once and the exam-number step at most once, arrives at the
\* login page at most once and at the exam-number page at most once, and
\* leaves the loop.
C14_SeleniumForwardOnly ==
    /\ [](/\ sel_count["login"] <= 1
          /\ sel_count["exam_number"] <= 1
          /\ sel_count["login_page"] <= 1
          /\ sel_count["exam_page"] <= 1)
    /\ <>(sel_pc \in {"done", "raised"})

\* -------------------------------------------------------------- claim C22
\* C22: every upload POST of a run comes after the run's GET of the submit
\* URL, and either that GET resolved to the submit URL or the run made a
\* secondary-code POST before the upload that was answered with a success
\* status; the upload POST goes to the submit URL the GET requested.
C22_UploadOnlyWhenAuthenticated ==
    \A d \in Runs :
        \A i \in 1..Len(trace[d]) :
            IsUploadPost(trace[d][i]) =>
                /\ trace[d][1].op = "GET"
                /\ trace[d][1].url = submit_url
                /\ trace[d][i].url = trace[d][1].url
                /\ \/ ResolvedUrl = submit_url
                   \/ \E j \in 1..(i - 1) :
                        /\ trace[d][j].op = "POST"
                        /\ trace[d][j].kind = "exam"
                        /\ ~raise_for_status(server["exam"])

\* An upload after a full login whose GET did not resolve to the submit URL.
C22_Witness ==
    /\ state[FALSE] = "NeedsFullLogin"
    /\ ResolvedUrl # submit_url
    /\ PostCount(FALSE, "exam") = 1
    /\ PostCount(FALSE, "upload") = 1
    /\ pc[FALSE] = "done"

\* -------------------------------------------------------------- claim C21
\* C21: with --no-save-cookies main never loads and never saves the cookie
\* file, run_requests is called with an empty jar whether or not a cookie
\* file exists, and no step of main changes the cookie file (other than the
\* unlink that --delete-cookies asks for, after which no run starts).
C21_NoSaveCookiesLeavesFile ==
    /\ [](~args.save_cookies =>
            /\ Positions({"load", "save"}) = {}
            /\ main_pc = "run_requests_session" => cookies = {}
            /\ main_pc = "running" /\ pc[args.dry_run] = "get" => cookies = {})
    /\ [][~args.save_cookies /\ ~args.delete_cookies => cookie_file' = cookie_file]_vars

\* A finished upload without cookie saving: the file that was there is still
\* there with its cookies, and none of them is in the jar.
C21_Witness ==
    /\ ~args.save_cookies
    /\ ~args.dry_run
    /\ main_pc = "finished"
    /\ PostCount(FALSE, "upload") = 1
    /\ cookie_file.exists
    /\ cookie_file.lines # {}
    /\ cookies = {}

\* -------------------------------------------------------------- claim C23
\* C23: a run of main that has raised has not saved the jar, the cookie file
\* changes only in the step by which main finishes or, under
\* --delete-cookies, returns, and main does nothing after that step: a run
\* that raises leaves the cookie file as it was.
C23_AbortLeavesCookieFile ==
    /\ [](main_pc = "raised" => Positions({"save"}) = {})
    /\ [][cookie_file' # cookie_file => main_pc' \in {"returned", "finished"}]_vars
    /\ [][(main_pc \in {"returned", "finished"}) => main_pc' = main_pc]_vars

\* The login POST was made, the run aborted, and the jar holds a cookie the
\* file does not.
C23_Witness ==
    /\ args.save_cookies
    /\ main_pc = "raised"
    /\ pc[args.dry_run] = "aborted"
    /\ PostCount(args.dry_run, "login") = 1
    /\ \E c \in cookies : lwp_cookie_str(c) \notin cookie_file.lines

====
